---- MODULE Spec2Model ----
(***************************************************************************)
(* JubyVault (goal-based savings ledger) on top of MockMorphoVault (an     *)
(* ERC4626 share vault with simulated linear yield) and the MockUSDC asset *)
(* token.                                                                  *)
(*                                                                         *)
(* Every handler is a sequence of steps of a call frame (a step ends at    *)
(* each external call).  A transaction runs the steps of its frames to the *)
(* end (Run); a revert anywhere discards the whole transaction.  Spec      *)
(* takes one transaction per action.  SpecReentrant takes one step per     *)
(* action and lets the asset token call back into the ledger while a       *)
(* handler is between two steps.  SpecVault has the users call the vault   *)
(* directly.                                                               *)
(*                                                                         *)
(* Units.  TLC's integers are 32 bit wide, the contracts' are 256 bit      *)
(* wide, so amounts are scaled down: DEAD_SHARES is 10 here (1e9 in the    *)
(* source) and block.timestamp is counted in years (365 days is 1).  No    *)
(* reachable value of the model comes near 2^256: the overflow reverts of  *)
(* Solidity 0.8 cannot happen; the underflow reverts can, and are.         *)
(***************************************************************************)
EXTENDS Integers, Sequences, FiniteSets, TLC

VARIABLES
  juby,     \* JubyVault storage: deposits, jubyTreasury, owner
  morpho,   \* MockMorphoVault storage
  usdc,     \* MockUSDC storage: balanceOf, allowance
  now,      \* block.timestamp
  last,     \* the last finished call: what was called and what it returned
  stack,    \* the call frames of the transaction in flight (head = running)
  snap,     \* the storage at the start of the transaction in flight
  tx,       \* bookkeeping of the transaction in flight (reentrant calls)
  made      \* the deposits and direct vault calls made so far (bounds the run)

vars == <<juby, morpho, usdc, now, last, stack, snap, tx, made>>

----------------------------------------------------------------------------
(* Bounds of the model *)

MaxTime == 2          \* block.timestamp runs from 0 to MaxTime
InitialBalance == 120 \* MockUSDC minted to each user before the run
MaxNested == 2        \* reentrant calls per transaction
MaxDeposits == 3      \* deposits made in a run, into the ledger or the vault
MaxAmount == 60       \* the amounts a conversion is asked for run from 0 to MaxAmount
Horizon == 3          \* how far ahead of now a view is read
MaxOpened == 2        \* deposits of a run of the administration's specification
MaxVaultOps == 3      \* calls that move shares in a run of SpecVault

(* Program constants *)

ANNUAL_YIELD_BPS == 500
BPS_DENOMINATOR == 10000
SECONDS_PER_YEAR == 1
DEAD_SHARES == 10
SLIPPAGE_TOLERANCE == 10

(* Addresses *)

ZERO == "0x0"
DEAD_ADDRESS == "0xdEaD"
LEDGER == "JubyVault"
VAULT == "MockMorphoVault"
TREASURY == "treasury"
DEPLOYER == "deployer"
Users == {"alice", "bob"}
Addresses == Users \cup {ZERO, DEAD_ADDRESS, LEDGER, VAULT, TREASURY, DEPLOYER}

(* Inputs *)

Approval == 2 * InitialBalance   \* what a user approves a spender for

Amounts == {0, 1, 4, 100}
GoalDates(ts) == {ts, ts + 1, ts + 2}

----------------------------------------------------------------------------
(* The world a handler runs on: the three contracts' storage. *)

World == [j |-> juby, m |-> morpho, t |-> usdc]

NoDeposit ==
  [shares |-> 0, principal |-> 0, goalDate |-> 0, depositDate |-> 0, exists |-> FALSE]

----------------------------------------------------------------------------
(* MockUSDC: a plain ERC20.  Each operation returns [err, t]; err = "" is  *)
(* success.                                                                *)

usdc_transfer(t, sender, to, amount) ==
  IF t.balanceOf[sender] < amount
    THEN [err |-> "Insufficient balance", t |-> t]
    ELSE LET b1 == [t.balanceOf EXCEPT ![sender] = @ - amount]
             b2 == [b1 EXCEPT ![to] = @ + amount]
         IN [err |-> "", t |-> [t EXCEPT !.balanceOf = b2]]

usdc_transferFrom(t, sender, from, to, amount) ==
  IF t.allowance[from][sender] < amount
    THEN [err |-> "Insufficient allowance", t |-> t]
  ELSE IF t.balanceOf[from] < amount
    THEN [err |-> "Insufficient balance", t |-> t]
    ELSE LET b1 == [t.balanceOf EXCEPT ![from] = @ - amount]
             b2 == [b1 EXCEPT ![to] = @ + amount]
         IN [err |-> "",
             t |-> [t EXCEPT !.balanceOf = b2,
                             !.allowance[from][sender] = @ - amount]]

usdc_approve(t, sender, spender, amount) ==
  [err |-> "", t |-> [t EXCEPT !.allowance[sender][spender] = amount]]

----------------------------------------------------------------------------
(* MockMorphoVault: views *)

(* Faulty variant: the yield taken off the pool. *)
totalAssets_decaying(m, ts) ==
  IF m._totalAssets = 0 THEN 0
  ELSE m._totalAssets - (m._totalAssets * ANNUAL_YIELD_BPS * (ts - m.lastYieldUpdate))
                          \div (SECONDS_PER_YEAR * BPS_DENOMINATOR)

totalAssets(m, ts) ==
  IF m._totalAssets = 0 THEN 0
  ELSE LET timeElapsed == ts - m.lastYieldUpdate IN
       IF timeElapsed = 0 THEN m._totalAssets
       ELSE LET yield == (m._totalAssets * ANNUAL_YIELD_BPS * timeElapsed)
                           \div (SECONDS_PER_YEAR * BPS_DENOMINATOR)
            IN m._totalAssets + yield

(* Faulty variant: the accrual stamped a period ahead. *)
_accrueYield_ahead(m, ts) ==
  [m EXCEPT !._totalAssets = totalAssets(m, ts), !.lastYieldUpdate = ts + 1]

(* Faulty variant: no accrual. *)
_accrueYield_skipped(m, ts) == m

_accrueYield(m, ts) ==
  [m EXCEPT !._totalAssets = totalAssets(m, ts), !.lastYieldUpdate = ts]

(* Faulty variant: the shares for an amount of assets, rounded up. *)
convertToShares_ceil(m, ts, assets) ==
  LET supply == m.totalSupply
      total == totalAssets(m, ts)
  IN IF supply = 0 \/ total = 0 THEN assets
     ELSE (assets * supply + total - 1) \div total

convertToShares(m, ts, assets) ==
  LET supply == m.totalSupply
      total == totalAssets(m, ts)
  IN IF supply = 0 \/ total = 0 THEN assets
     ELSE (assets * supply) \div total

convertToAssets(m, ts, shares) ==
  LET supply == m.totalSupply
  IN IF supply = 0 THEN shares
     ELSE (shares * totalAssets(m, ts)) \div supply

(* Faulty variant: an initialization that takes any first deposit. *)
_initializeVault_noFloor(m, firstDeposit) ==
  [err |-> "",
   m |-> [m EXCEPT !.totalSupply = DEAD_SHARES,
                   !.balanceOf[DEAD_ADDRESS] = DEAD_SHARES,
                   !._totalAssets = DEAD_SHARES]]

(* _initializeVault: [err, m] *)
_initializeVault(m, firstDeposit) ==
  IF firstDeposit < DEAD_SHARES
    THEN [err |-> "First deposit too small", m |-> m]
    ELSE [err |-> "",
          m |-> [m EXCEPT !.totalSupply = DEAD_SHARES,
                          !.balanceOf[DEAD_ADDRESS] = DEAD_SHARES,
                          !._totalAssets = DEAD_SHARES]]

----------------------------------------------------------------------------
(* Call frames.  A frame is one running handler: its name, msg.sender, the *)
(* place it has reached (pc), whether it has made an external call yet,    *)
(* its arguments and its locals.  retval is what its last callee returned. *)

Frame(op, sender) ==
  [op |-> op, who |-> sender, pc |-> "entry", called |-> FALSE,
   amount |-> 0, goalDate |-> 0, receiver |-> ZERO, owner |-> ZERO,
   shares |-> 0, assets |-> 0, principal |-> 0, currentValue |-> 0,
   yield |-> 0, isEarly |-> FALSE, penalty |-> 0, userReceives |-> 0,
   retval |-> 0, events |-> <<>>]

(* emit name(args), in the frame that runs; a revert drops the frame's      *)
(* events with it.                                                          *)
Emit(f, name, args) ==
  [f EXCEPT !.events = Append(@, [name |-> name, args |-> args])]

(* What a step of a frame does: goes on (step), calls another contract of  *)
(* the system (call), returns (done), or reverts (err # "").               *)
Ok(W, f) ==
  [err |-> "", W |-> W, f |-> f, kind |-> "step", callee |-> f, ret |-> 0]
CallOut(W, f, callee) ==
  [err |-> "", W |-> W, f |-> f, kind |-> "call", callee |-> callee, ret |-> 0]
Done(W, f, ret) ==
  [err |-> "", W |-> W, f |-> f, kind |-> "done", callee |-> f, ret |-> ret]
Revert(e, W, f) ==
  [err |-> e, W |-> W, f |-> f, kind |-> "revert", callee |-> f, ret |-> 0]

----------------------------------------------------------------------------
(* MockMorphoVault: handlers *)

(* Faulty variant: the receiver credited, the supply not raised. *)
MintShares_supplyKept(m, receiver, shares, assets) ==
  [m EXCEPT !.balanceOf[receiver] = @ + shares,
            !._totalAssets = @ + assets]

(* The shares minted to receiver against the assets pulled in. *)
MintShares(m, receiver, shares, assets) ==
  [m EXCEPT !.totalSupply = @ + shares,
            !.balanceOf[receiver] = @ + shares,
            !._totalAssets = @ + assets]

(* The shares burned from owner against the assets paid out. *)
BurnShares(m, owner, shares, assets) ==
  [m EXCEPT !.balanceOf[owner] = @ - shares,
            !.totalSupply = @ - shares,
            !._totalAssets = @ - assets]

(* Faulty variant: the allowance checked and left as it was. *)
SpendAllowance_unspent(m, sender, owner, shares) ==
  IF sender = owner THEN [err |-> "", m |-> m]
  ELSE IF m.allowance[owner][sender] < shares
    THEN [err |-> "Insufficient allowance", m |-> m]
  ELSE [err |-> "", m |-> m]

(* The allowance check of withdraw and redeem: [err, m] *)
SpendAllowance(m, sender, owner, shares) ==
  IF sender = owner THEN [err |-> "", m |-> m]
  ELSE LET allowed == m.allowance[owner][sender] IN
       IF allowed < shares THEN [err |-> "Insufficient allowance", m |-> m]
       ELSE [err |-> "", m |-> [m EXCEPT !.allowance[owner][sender] = allowed - shares]]

(* Faulty variant: deposit without the check of the shares it mints. *)
MockMorphoVault_deposit_unchecked(W, f, ts) ==
  CASE f.pc = "entry" ->
         IF f.assets = 0 THEN Revert("Cannot deposit 0", W, f)
         ELSE IF f.receiver = ZERO THEN Revert("Invalid receiver", W, f)
         ELSE LET m1 == _accrueYield(W.m, ts)
                  ini == IF ~m1.initialized THEN _initializeVault(m1, f.assets)
                         ELSE [err |-> "", m |-> m1]
                  m2 == [ini.m EXCEPT !.initialized = TRUE]
                  shares == convertToShares(m2, ts, f.assets)
              IN IF ini.err # "" THEN Revert(ini.err, W, f)
                 ELSE Ok([W EXCEPT !.m = m2], [f EXCEPT !.pc = "pull", !.shares = shares])
    [] f.pc = "pull" ->
         LET r == usdc_transferFrom(W.t, VAULT, f.who, VAULT, f.assets)
         IN IF r.err # "" THEN Revert("TransferFrom failed", W, f)
            ELSE Ok([W EXCEPT !.t = r.t], [f EXCEPT !.pc = "mint", !.called = TRUE])
    [] OTHER ->
         Done([W EXCEPT !.m = MintShares(W.m, f.receiver, f.shares, f.assets)], f, f.shares)

MockMorphoVault_deposit(W, f, ts) ==
  CASE f.pc = "entry" ->
         IF f.assets = 0 THEN Revert("Cannot deposit 0", W, f)
         ELSE IF f.receiver = ZERO THEN Revert("Invalid receiver", W, f)
         ELSE LET m1 == _accrueYield(W.m, ts)
                  ini == IF ~m1.initialized THEN _initializeVault(m1, f.assets)
                         ELSE [err |-> "", m |-> m1]
                  m2 == [ini.m EXCEPT !.initialized = TRUE]
                  shares == convertToShares(m2, ts, f.assets)
              IN IF ini.err # "" THEN Revert(ini.err, W, f)
                 ELSE IF shares = 0 THEN Revert("Zero shares", W, f)
                 ELSE Ok([W EXCEPT !.m = m2], [f EXCEPT !.pc = "pull", !.shares = shares])
    [] f.pc = "pull" ->
         LET r == usdc_transferFrom(W.t, VAULT, f.who, VAULT, f.assets)
         IN IF r.err # "" THEN Revert("TransferFrom failed", W, f)
            ELSE Ok([W EXCEPT !.t = r.t], [f EXCEPT !.pc = "mint", !.called = TRUE])
    [] OTHER ->
         Done([W EXCEPT !.m = MintShares(W.m, f.receiver, f.shares, f.assets)], f, f.shares)

MockMorphoVault_mint(W, f, ts) ==
  CASE f.pc = "entry" ->
         IF f.shares = 0 THEN Revert("Cannot mint 0", W, f)
         ELSE IF f.receiver = ZERO THEN Revert("Invalid receiver", W, f)
         ELSE LET m1 == _accrueYield(W.m, ts)
                  ini == IF ~m1.initialized THEN _initializeVault(m1, f.shares)
                         ELSE [err |-> "", m |-> m1]
                  m2 == [ini.m EXCEPT !.initialized = TRUE]
                  assets == IF ~m1.initialized THEN f.shares
                            ELSE convertToAssets(m1, ts, f.shares)
              IN IF ini.err # "" THEN Revert(ini.err, W, f)
                 ELSE IF assets = 0 THEN Revert("Zero assets", W, f)
                 ELSE Ok([W EXCEPT !.m = m2], [f EXCEPT !.pc = "pull", !.assets = assets])
    [] f.pc = "pull" ->
         LET r == usdc_transferFrom(W.t, VAULT, f.who, VAULT, f.assets)
         IN IF r.err # "" THEN Revert("TransferFrom failed", W, f)
            ELSE Ok([W EXCEPT !.t = r.t], [f EXCEPT !.pc = "mint", !.called = TRUE])
    [] OTHER ->
         Done([W EXCEPT !.m = MintShares(W.m, f.receiver, f.shares, f.assets)], f, f.assets)

MockMorphoVault_withdraw(W, f, ts) ==
  CASE f.pc = "entry" ->
         IF f.assets = 0 THEN Revert("Cannot withdraw 0", W, f)
         ELSE IF f.receiver = ZERO THEN Revert("Invalid receiver", W, f)
         ELSE LET m1 == _accrueYield(W.m, ts)
                  shares == convertToShares(m1, ts, f.assets)
                  al == SpendAllowance(m1, f.who, f.owner, shares)
              IN IF shares = 0 THEN Revert("Zero shares", W, f)
                 ELSE IF al.err # "" THEN Revert(al.err, W, f)
                 ELSE IF al.m.balanceOf[f.owner] < shares
                   THEN Revert("Insufficient balance", W, f)
                 ELSE IF al.m._totalAssets < f.assets THEN Revert("Panic(0x11)", W, f)
                 ELSE Ok([W EXCEPT !.m = BurnShares(al.m, f.owner, shares, f.assets)],
                         [f EXCEPT !.pc = "push", !.shares = shares])
    [] OTHER ->
         LET r == usdc_transfer(W.t, VAULT, f.receiver, f.assets)
         IN IF r.err # "" THEN Revert("Transfer failed", W, f)
            ELSE Done([W EXCEPT !.t = r.t], [f EXCEPT !.called = TRUE], f.shares)

MockMorphoVault_redeem(W, f, ts) ==
  CASE f.pc = "entry" ->
         IF f.shares = 0 THEN Revert("Cannot redeem 0", W, f)
         ELSE IF f.receiver = ZERO THEN Revert("Invalid receiver", W, f)
         ELSE LET al == SpendAllowance(W.m, f.who, f.owner, f.shares)
                  m1 == _accrueYield(al.m, ts)
                  assets == convertToAssets(m1, ts, f.shares)
              IN IF al.err # "" THEN Revert(al.err, W, f)
                 ELSE IF al.m.balanceOf[f.owner] < f.shares
                   THEN Revert("Insufficient balance", W, f)
                 ELSE IF assets = 0 THEN Revert("Zero assets", W, f)
                 ELSE IF m1._totalAssets < assets THEN Revert("Panic(0x11)", W, f)
                 ELSE Ok([W EXCEPT !.m = BurnShares(m1, f.owner, f.shares, assets)],
                         [f EXCEPT !.pc = "push", !.assets = assets])
    [] OTHER ->
         LET r == usdc_transfer(W.t, VAULT, f.receiver, f.assets)
         IN IF r.err # "" THEN Revert("Transfer failed", W, f)
            ELSE Done([W EXCEPT !.t = r.t], [f EXCEPT !.called = TRUE], f.assets)

(* Faulty variant: an approval that hands the shares over. *)
MockMorphoVault_approve_moving(W, f, ts) ==
  Done([W EXCEPT !.m.allowance[f.who][f.receiver] = f.shares,
                 !.m.balanceOf[f.receiver] = @ + f.shares], f, 1)

(* The vault's shares as an ERC20: approve(spender, amount),                *)
(* transfer(to, amount), transferFrom(from, to, amount).  The frame holds   *)
(* spender or to in receiver, from in owner and amount in shares.           *)
MockMorphoVault_approve(W, f, ts) ==
  Done([W EXCEPT !.m.allowance[f.who][f.receiver] = f.shares], f, 1)

MockMorphoVault_transfer(W, f, ts) ==
  IF W.m.balanceOf[f.who] < f.shares THEN Revert("Insufficient balance", W, f)
  ELSE Done([W EXCEPT !.m.balanceOf =
                        [[@ EXCEPT ![f.who] = @ - f.shares]
                            EXCEPT ![f.receiver] = @ + f.shares]],
            f, 1)

MockMorphoVault_transferFrom(W, f, ts) ==
  IF W.m.allowance[f.owner][f.who] < f.shares THEN Revert("Insufficient allowance", W, f)
  ELSE IF W.m.balanceOf[f.owner] < f.shares THEN Revert("Insufficient balance", W, f)
  ELSE Done([W EXCEPT !.m.allowance[f.owner][f.who] = @ - f.shares,
                      !.m.balanceOf =
                        [[@ EXCEPT ![f.owner] = @ - f.shares]
                            EXCEPT ![f.receiver] = @ + f.shares]],
            f, 1)

----------------------------------------------------------------------------
(* JubyVault: handlers *)

(* Faulty variant: the penalty rounded up, the odd unit going to the treasury. *)
WithdrawSplit_ceil(principal, currentValue, goalDate, ts) ==
  LET yield == IF currentValue > principal THEN currentValue - principal ELSE 0
      isEarly == ts < goalDate
      penalty == IF isEarly /\ yield > 0 THEN (yield + 1) \div 2 ELSE 0
  IN [yield |-> yield, isEarly |-> isEarly, penalty |-> penalty,
      userReceives |-> currentValue - penalty]

(* Faulty variant: a withdrawal at the goal date itself still counted as early. *)
WithdrawSplit_lateBoundary(principal, currentValue, goalDate, ts) ==
  LET yield == IF currentValue > principal THEN currentValue - principal ELSE 0
      isEarly == ts <= goalDate
      penalty == IF isEarly /\ yield > 0 THEN yield \div 2 ELSE 0
  IN [yield |-> yield, isEarly |-> isEarly, penalty |-> penalty,
      userReceives |-> currentValue - penalty]

(* Faulty variant: both halves of the yield rounded down, the odd unit left *)
(* on the ledger.                                                           *)
WithdrawSplit_halves(principal, currentValue, goalDate, ts) ==
  LET yield == IF currentValue > principal THEN currentValue - principal ELSE 0
      isEarly == ts < goalDate
  IN IF isEarly /\ yield > 0
       THEN [yield |-> yield, isEarly |-> isEarly, penalty |-> yield \div 2,
             userReceives |-> principal + yield \div 2]
       ELSE [yield |-> yield, isEarly |-> isEarly, penalty |-> 0,
             userReceives |-> currentValue]

(* The yield and its split between the treasury and the depositor. *)
WithdrawSplit(principal, currentValue, goalDate, ts) ==
  LET yield == IF currentValue > principal THEN currentValue - principal ELSE 0
      isEarly == ts < goalDate
  IN IF isEarly /\ yield > 0
       THEN LET penalty == yield \div 2
            IN [yield |-> yield, isEarly |-> isEarly, penalty |-> penalty,
                userReceives |-> principal + (yield - penalty)]
       ELSE [yield |-> yield, isEarly |-> isEarly, penalty |-> 0,
             userReceives |-> currentValue]

(* Faulty variant: a record written without its exists flag. *)
RecordDeposit_unflagged(j, sender, shares, amount, goalDate, ts) ==
  [j EXCEPT !.deposits[sender] =
     [shares |-> shares, principal |-> amount, goalDate |-> goalDate,
      depositDate |-> ts, exists |-> FALSE]]

(* Faulty variant: the shares recorded as the principal. *)
RecordDeposit_sharesAsPrincipal(j, sender, shares, amount, goalDate, ts) ==
  [j EXCEPT !.deposits[sender] =
     [shares |-> shares, principal |-> shares, goalDate |-> goalDate,
      depositDate |-> ts, exists |-> TRUE]]

(* deposits[msg.sender] = UserDeposit({...}) *)
RecordDeposit(j, sender, shares, amount, goalDate, ts) ==
  [j EXCEPT !.deposits[sender] =
     [shares |-> shares, principal |-> amount, goalDate |-> goalDate,
      depositDate |-> ts, exists |-> TRUE]]

(* Faulty variant: withdraw() leaves the record in place. *)
DeleteDeposit_keep(j, sender) == j

(* Faulty variant: every account's record deleted. *)
DeleteDeposit_all(j, sender) ==
  [j EXCEPT !.deposits = [u \in DOMAIN @ |-> NoDeposit]]

(* delete deposits[msg.sender] *)
DeleteDeposit(j, sender) ==
  [j EXCEPT !.deposits[sender] = NoDeposit]

(* require(assetsReceived >= currentValue - 10): the subtraction is checked, *)
(* so it reverts with a panic when currentValue < 10.                        *)
SlippageCheck(assetsReceived, currentValue) ==
  IF currentValue < SLIPPAGE_TOLERANCE THEN "Panic(0x11)"
  ELSE IF assetsReceived < currentValue - SLIPPAGE_TOLERANCE THEN "Slippage too high"
  ELSE ""

(* Faulty variant: deposit() without the check for an existing deposit. *)
DepositChecks_noDuplicate(j, sender, amount, goalDate, ts) ==
  IF ~(amount > 0) THEN "Cannot deposit 0"
  ELSE IF ~(goalDate > ts) THEN "Goal date must be in future"
  ELSE ""

(* Faulty variant: a goal date equal to the block's timestamp accepted. *)
DepositChecks_goalNow(j, sender, amount, goalDate, ts) ==
  IF ~(amount > 0) THEN "Cannot deposit 0"
  ELSE IF ~(goalDate >= ts) THEN "Goal date must be in future"
  ELSE IF j.deposits[sender].exists THEN "Existing deposit found. Withdraw first."
  ELSE ""

(* The three requires of deposit, in the order they are made: the reason of *)
(* the first that fails, "" when none does.                                 *)
DepositChecks(j, sender, amount, goalDate, ts) ==
  IF ~(amount > 0) THEN "Cannot deposit 0"
  ELSE IF ~(goalDate > ts) THEN "Goal date must be in future"
  ELSE IF j.deposits[sender].exists THEN "Existing deposit found. Withdraw first."
  ELSE ""

JubyVault_deposit(W, f, ts) ==
  CASE f.pc = "entry" ->
         LET chk == DepositChecks(W.j, f.who, f.amount, f.goalDate, ts)
         IN IF chk # "" THEN Revert(chk, W, f)
            ELSE Ok(W, [f EXCEPT !.pc = "pull"])
    [] f.pc = "pull" ->
         LET r == usdc_transferFrom(W.t, LEDGER, f.who, LEDGER, f.amount)
         IN IF r.err # "" THEN Revert("TransferFrom failed", W, f)
            ELSE Ok([W EXCEPT !.t = r.t], [f EXCEPT !.pc = "approve", !.called = TRUE])
    [] f.pc = "approve" ->
         LET r == usdc_approve(W.t, LEDGER, VAULT, f.amount)
         IN Ok([W EXCEPT !.t = r.t], [f EXCEPT !.pc = "vault", !.called = TRUE])
    [] f.pc = "vault" ->
         CallOut(W, [f EXCEPT !.pc = "record", !.called = TRUE],
                 [Frame("morpho.deposit", LEDGER) EXCEPT
                    !.assets = f.amount, !.receiver = LEDGER])
    [] OTHER ->
         Done([W EXCEPT !.j = RecordDeposit(W.j, f.who, f.retval, f.amount, f.goalDate, ts)],
              Emit([f EXCEPT !.shares = f.retval], "Deposited",
                   <<f.who, f.amount, f.retval, f.goalDate, ts>>),
              f.retval)

JubyVault_withdraw(W, f, ts) ==
  CASE f.pc = "entry" ->
         LET userDeposit == W.j.deposits[f.who]
             currentValue == convertToAssets(W.m, ts, userDeposit.shares)
             s == WithdrawSplit(userDeposit.principal, currentValue, userDeposit.goalDate, ts)
         IN IF ~userDeposit.exists THEN Revert("No deposit found", W, f)
            ELSE Ok([W EXCEPT !.j = DeleteDeposit(W.j, f.who)],
                    [f EXCEPT !.pc = "redeem",
                              !.shares = userDeposit.shares,
                              !.principal = userDeposit.principal,
                              !.goalDate = userDeposit.goalDate,
                              !.currentValue = currentValue,
                              !.yield = s.yield,
                              !.isEarly = s.isEarly,
                              !.penalty = s.penalty,
                              !.userReceives = s.userReceives])
    [] f.pc = "redeem" ->
         CallOut(W, [f EXCEPT !.pc = "slippage", !.called = TRUE],
                 [Frame("morpho.redeem", LEDGER) EXCEPT
                    !.shares = f.shares, !.receiver = LEDGER, !.owner = LEDGER])
    [] f.pc = "slippage" ->
         LET chk == SlippageCheck(f.retval, f.currentValue)
             r == IF f.penalty > 0
                    THEN usdc_transfer(W.t, LEDGER, W.j.jubyTreasury, f.penalty)
                    ELSE [err |-> "", t |-> W.t]
         IN IF chk # "" THEN Revert(chk, W, f)
            ELSE IF r.err # "" THEN Revert("Transfer failed", W, f)
            ELSE Ok([W EXCEPT !.t = r.t],
                    IF f.penalty > 0
                      THEN Emit([f EXCEPT !.pc = "pay", !.assets = f.retval],
                                "PenaltyCollected", <<f.who, f.penalty>>)
                      ELSE [f EXCEPT !.pc = "pay", !.assets = f.retval])
    [] OTHER ->
         LET r == usdc_transfer(W.t, LEDGER, f.who, f.userReceives)
         IN IF r.err # "" THEN Revert("Transfer failed", W, f)
            ELSE Done([W EXCEPT !.t = r.t],
                      Emit(f, "Withdrawn",
                           <<f.who, f.principal, f.yield, f.penalty, f.userReceives,
                             f.isEarly>>),
                      f.userReceives)

JubyVault_updateTreasury(W, f, ts) ==
  IF f.who # W.j.owner THEN Revert("Only owner", W, f)
  ELSE IF f.receiver = ZERO THEN Revert("Invalid treasury", W, f)
  ELSE Done([W EXCEPT !.j.jubyTreasury = f.receiver],
            Emit(f, "TreasuryUpdated", <<W.j.jubyTreasury, f.receiver>>), 0)

(* Faulty variant: transferOwnership open to any caller. *)
JubyVault_transferOwnership_open(W, f, ts) ==
  IF f.receiver = ZERO THEN Revert("Invalid owner", W, f)
  ELSE Done([W EXCEPT !.j.owner = f.receiver], f, 0)

JubyVault_transferOwnership(W, f, ts) ==
  IF f.who # W.j.owner THEN Revert("Only owner", W, f)
  ELSE IF f.receiver = ZERO THEN Revert("Invalid owner", W, f)
  ELSE Done([W EXCEPT !.j.owner = f.receiver], f, 0)

(* getUserInfo(user) *)
getUserInfo(W, ts, user) ==
  LET userDeposit == W.j.deposits[user] IN
  IF ~userDeposit.exists
    THEN [principal |-> 0, currentValue |-> 0, yield |-> 0, goalDate |-> 0,
          isEarly |-> FALSE, potentialPenalty |-> 0]
    ELSE LET principal == userDeposit.principal
             currentValue == convertToAssets(W.m, ts, userDeposit.shares)
             yield == IF currentValue > principal THEN currentValue - principal ELSE 0
             goalDate == userDeposit.goalDate
             isEarly == ts < goalDate
         IN [principal |-> principal, currentValue |-> currentValue, yield |-> yield,
             goalDate |-> goalDate, isEarly |-> isEarly,
             potentialPenalty |-> IF isEarly /\ yield > 0 THEN yield \div 2 ELSE 0]

(* Faulty variant: a preview that forgets the penalty. *)
previewWithdrawal_noPenalty(W, ts, user) ==
  LET userDeposit == W.j.deposits[user] IN
  IF ~userDeposit.exists
    THEN [userWillReceive |-> 0, penaltyAmount |-> 0]
    ELSE [userWillReceive |-> convertToAssets(W.m, ts, userDeposit.shares),
          penaltyAmount |-> 0]

(* previewWithdrawal(user) *)
previewWithdrawal(W, ts, user) ==
  LET userDeposit == W.j.deposits[user] IN
  IF ~userDeposit.exists
    THEN [userWillReceive |-> 0, penaltyAmount |-> 0]
    ELSE LET currentValue == convertToAssets(W.m, ts, userDeposit.shares)
             yield == IF currentValue > userDeposit.principal
                        THEN currentValue - userDeposit.principal ELSE 0
             isEarly == ts < userDeposit.goalDate
         IN IF isEarly /\ yield > 0
              THEN [userWillReceive |-> userDeposit.principal + (yield - yield \div 2),
                    penaltyAmount |-> yield \div 2]
              ELSE [userWillReceive |-> currentValue, penaltyAmount |-> 0]

(* Faulty variant: a read that accrues the vault's yield on its way. *)
JubyVault_getUserInfo_accruing(W, f, ts) ==
  LET i == getUserInfo(W, ts, f.receiver)
  IN Done([W EXCEPT !.m = _accrueYield(W.m, ts)],
          [f EXCEPT !.principal = i.principal, !.currentValue = i.currentValue,
                    !.yield = i.yield, !.goalDate = i.goalDate,
                    !.isEarly = i.isEarly, !.penalty = i.potentialPenalty],
          i.currentValue)

(* A call of getUserInfo(user), user in the frame's receiver: the storage   *)
(* as the view leaves it and the tuple it returns, in the frame's fields.   *)
JubyVault_getUserInfo(W, f, ts) ==
  LET i == getUserInfo(W, ts, f.receiver)
  IN Done(W,
          [f EXCEPT !.principal = i.principal, !.currentValue = i.currentValue,
                    !.yield = i.yield, !.goalDate = i.goalDate,
                    !.isEarly = i.isEarly, !.penalty = i.potentialPenalty],
          i.currentValue)

(* A call of previewWithdrawal(user). *)
JubyVault_previewWithdrawal(W, f, ts) ==
  LET p == previewWithdrawal(W, ts, f.receiver)
  IN Done(W,
          [f EXCEPT !.userReceives = p.userWillReceive, !.penalty = p.penaltyAmount],
          p.userWillReceive)

----------------------------------------------------------------------------
(* The machine: one step of the running frame; a transaction to its end.   *)

LedgerOps == {"juby.deposit", "juby.withdraw", "juby.updateTreasury",
              "juby.transferOwnership", "juby.getUserInfo", "juby.previewWithdrawal"}
VaultOps == {"morpho.deposit", "morpho.mint", "morpho.withdraw", "morpho.redeem",
             "morpho.approve", "morpho.transfer", "morpho.transferFrom"}

FrameStep(W, f, ts) ==
  CASE f.op = "juby.deposit" -> JubyVault_deposit(W, f, ts)
    [] f.op = "juby.withdraw" -> JubyVault_withdraw(W, f, ts)
    [] f.op = "juby.updateTreasury" -> JubyVault_updateTreasury(W, f, ts)
    [] f.op = "juby.transferOwnership" -> JubyVault_transferOwnership(W, f, ts)
    [] f.op = "juby.getUserInfo" -> JubyVault_getUserInfo(W, f, ts)
    [] f.op = "juby.previewWithdrawal" -> JubyVault_previewWithdrawal(W, f, ts)
    [] f.op = "morpho.deposit" -> MockMorphoVault_deposit(W, f, ts)
    [] f.op = "morpho.mint" -> MockMorphoVault_mint(W, f, ts)
    [] f.op = "morpho.withdraw" -> MockMorphoVault_withdraw(W, f, ts)
    [] f.op = "morpho.approve" -> MockMorphoVault_approve(W, f, ts)
    [] f.op = "morpho.transfer" -> MockMorphoVault_transfer(W, f, ts)
    [] f.op = "morpho.transferFrom" -> MockMorphoVault_transferFrom(W, f, ts)
    [] OTHER -> MockMorphoVault_redeem(W, f, ts)

(* _depositToMorpho, _redeemFromMorpho: require(success, ...) on the       *)
(* low-level call; a revert of the vault reverts the ledger's call with    *)
(* the ledger's own message.                                               *)
CallFailed(caller, e) ==
  CASE caller.op = "juby.deposit" -> "Morpho deposit failed"
    [] caller.op = "juby.withdraw" -> "Morpho redeem failed"
    [] OTHER -> e

(* What the step r of the running frame makes of the stack: a revert       *)
(* unwinds it, a call pushes the callee's frame, a return pops the frame    *)
(* and hands its value to the caller.                                       *)
(* [err, cause, W, stack, fin, ret, f]: fin when the outermost frame has    *)
(* returned, f the frame that ran.                                          *)
Settle(W, stk, r) ==
  LET f == Head(stk)
      rest == Tail(stk)
  IN IF r.err # ""
       THEN [err |-> IF rest = <<>> THEN r.err ELSE CallFailed(Head(rest), r.err),
             cause |-> r.err, W |-> W, stack |-> stk, fin |-> FALSE, ret |-> 0, f |-> f]
     ELSE IF r.kind = "call"
       THEN [err |-> "", cause |-> "", W |-> r.W, stack |-> <<r.callee, r.f>> \o rest,
             fin |-> FALSE, ret |-> 0, f |-> r.f]
     ELSE IF r.kind = "done"
       THEN IF rest = <<>>
              THEN [err |-> "", cause |-> "", W |-> r.W, stack |-> <<>>,
                    fin |-> TRUE, ret |-> r.ret, f |-> r.f]
              ELSE [err |-> "", cause |-> "", W |-> r.W,
                    stack |-> <<[Head(rest) EXCEPT !.retval = r.ret]>> \o Tail(rest),
                    fin |-> FALSE, ret |-> r.ret, f |-> r.f]
     ELSE [err |-> "", cause |-> "", W |-> r.W, stack |-> <<r.f>> \o rest,
           fin |-> FALSE, ret |-> 0, f |-> r.f]

(* One step of the machine: the running frame's. *)
MStep(W, stk, ts) == Settle(W, stk, FrameStep(W, Head(stk), ts))

(* A transaction to its end: steps until the outermost frame returns or a  *)
(* frame reverts.                                                          *)
RECURSIVE Run(_, _, _)
RunOn(r, ts) == IF r.err # "" \/ r.fin THEN r ELSE Run(r.W, r.stack, ts)
Run(W, stk, ts) == RunOn(MStep(W, stk, ts), ts)

----------------------------------------------------------------------------
(* The state after deployment: nothing deposited, the vault uninitialized, *)
(* each user holding InitialBalance of MockUSDC and having approved the    *)
(* ledger and the vault for Approval.                                      *)

ShareHolders == Users \cup {LEDGER, DEAD_ADDRESS}
Spenders == Users \cup {LEDGER, VAULT}

NoCall ==
  [op |-> "none", who |-> ZERO, err |-> "", cause |-> "", ret |-> 0, depth |-> 0,
   f |-> Frame("none", ZERO)]

TxIdle ==
  [nested |-> 0, had |-> {}, deps |-> [u \in Users |-> 0], paid |-> [u \in Users |-> 0]]

Init ==
  /\ juby = [deposits |-> [u \in Users |-> NoDeposit],
             jubyTreasury |-> TREASURY,
             owner |-> DEPLOYER]
  /\ morpho = [totalSupply |-> 0, _totalAssets |-> 0, lastYieldUpdate |-> 0,
               initialized |-> FALSE,
               balanceOf |-> [a \in ShareHolders |-> 0],
               allowance |-> [a \in ShareHolders |-> [b \in Spenders |-> 0]]]
  /\ usdc = [balanceOf |-> [a \in Addresses |-> IF a \in Users THEN InitialBalance ELSE 0],
             allowance |-> [a \in Users \cup {LEDGER} |->
                             [b \in Spenders |-> Approval]]]
  /\ now = 0
  /\ last = NoCall
  /\ stack = <<>>
  /\ snap = World
  /\ tx = TxIdle
  /\ made = 0

----------------------------------------------------------------------------
(* Calls *)

DepositCall(u, amount, goalDate) ==
  [Frame("juby.deposit", u) EXCEPT !.amount = amount, !.goalDate = goalDate]
WithdrawCall(u) == Frame("juby.withdraw", u)
UpdateTreasuryCall(c, a) == [Frame("juby.updateTreasury", c) EXCEPT !.receiver = a]
TransferOwnershipCall(c, a) == [Frame("juby.transferOwnership", c) EXCEPT !.receiver = a]
GetUserInfoCall(c, user) == [Frame("juby.getUserInfo", c) EXCEPT !.receiver = user]
PreviewWithdrawalCall(c, user) == [Frame("juby.previewWithdrawal", c) EXCEPT !.receiver = user]
VaultDepositCall(u, assets, receiver) ==
  [Frame("morpho.deposit", u) EXCEPT !.assets = assets, !.receiver = receiver]
VaultMintCall(u, shares, receiver) ==
  [Frame("morpho.mint", u) EXCEPT !.shares = shares, !.receiver = receiver]
VaultWithdrawCall(u, assets, receiver, owner) ==
  [Frame("morpho.withdraw", u) EXCEPT
     !.assets = assets, !.receiver = receiver, !.owner = owner]
VaultRedeemCall(u, shares, receiver, owner) ==
  [Frame("morpho.redeem", u) EXCEPT
     !.shares = shares, !.receiver = receiver, !.owner = owner]

VaultApproveCall(u, spender, amount) ==
  [Frame("morpho.approve", u) EXCEPT !.receiver = spender, !.shares = amount]
VaultTransferCall(u, to, amount) ==
  [Frame("morpho.transfer", u) EXCEPT !.receiver = to, !.shares = amount]
VaultTransferFromCall(u, from, to, amount) ==
  [Frame("morpho.transferFrom", u) EXCEPT
     !.owner = from, !.receiver = to, !.shares = amount]

(* What last keeps of a call: a rejected call keeps its name, its sender   *)
(* and the reason; a call that returned keeps its frame too.               *)
Rejected(call, r, depth) ==
  [op |-> call.op, who |-> call.who, err |-> r.err, cause |-> r.cause, ret |-> 0,
   depth |-> depth, f |-> Frame(call.op, call.who)]
Returned(call, r, depth) ==
  [op |-> call.op, who |-> call.who, err |-> "", cause |-> "", ret |-> r.ret,
   depth |-> depth, f |-> r.f]

(* The calls counted against the bounds, after a call that returned: the   *)
(* deposits and the direct calls to the vault that move shares.            *)
Count(call) ==
  IF call.op \in {"juby.deposit"} \cup (VaultOps \ {"morpho.approve"})
    THEN made + 1 ELSE made

(* Faulty variant: the writes made before a revert kept. *)
Commit_partial(call, r) ==
  /\ stack = <<>>
  /\ juby' = r.W.j
  /\ morpho' = r.W.m
  /\ usdc' = r.W.t
  /\ IF r.err # ""
       THEN /\ made' = made
            /\ last' = Rejected(call, r, 0)
       ELSE /\ made' = Count(call)
            /\ last' = Returned(call, r, 0)
  /\ UNCHANGED <<now, stack, snap, tx>>

(* The outcome r of a transaction: committed, or discarded on a revert. *)
Commit(call, r) ==
  /\ stack = <<>>
  /\ IF r.err # ""
       THEN /\ UNCHANGED <<juby, morpho, usdc, made>>
            /\ last' = Rejected(call, r, 0)
       ELSE /\ juby' = r.W.j
            /\ morpho' = r.W.m
            /\ usdc' = r.W.t
            /\ made' = Count(call)
            /\ last' = Returned(call, r, 0)
  /\ UNCHANGED <<now, stack, snap, tx>>

(* One transaction: the call runs to its end, or reverts and changes nothing. *)
Transact(call) == Commit(call, Run(World, <<call>>, now))

Env(name, u) == [NoCall EXCEPT !.op = name, !.who = u]

Deposit ==
  \E u \in Users, amount \in Amounts, goalDate \in GoalDates(now) :
    /\ made < MaxDeposits
    /\ Transact(DepositCall(u, amount, goalDate))

Withdraw ==
  \E u \in Users :
    /\ stack = <<>>
    /\ Transact(WithdrawCall(u))

AdminCallers == {DEPLOYER, "alice"}
AdminTargets == {ZERO, "alice", TREASURY, LEDGER}

UpdateTreasury ==
  \E c \in AdminCallers, a \in AdminTargets :
    /\ stack = <<>>
    /\ Transact(UpdateTreasuryCall(c, a))

(* Another account uses the vault directly. *)
VaultDeposit ==
  \E assets \in Amounts :
    /\ made < MaxDeposits
    /\ Transact(VaultDepositCall("bob", assets, "bob"))

Tick ==
  /\ stack = <<>>
  /\ now < MaxTime
  /\ now' = now + 1
  /\ last' = Env("tick", ZERO)
  /\ UNCHANGED <<juby, morpho, usdc, stack, snap, tx, made>>

Next ==
  \/ Deposit
  \/ Withdraw
  \/ UpdateTreasury
  \/ VaultDeposit
  \/ Tick

Spec == Init /\ [][Next]_vars

----------------------------------------------------------------------------
(* SpecReentrant: a transaction takes one step per action, and the asset   *)
(* token calls back into the ledger while one of its transfers is under    *)
(* way (a token with transfer hooks, or a receiver that is a contract).    *)
(* The call made from the hook is a deposit() or a withdraw() of a user;   *)
(* it runs to its end on the storage as it is at that moment.  A hook that *)
(* sees its call rejected carries on (try/catch), so the transaction in    *)
(* flight goes on.                                                         *)

(* Where a frame stands when a token call of its handler is under way: the *)
(* pc before the step that makes the call (the hook runs before the        *)
(* token's own writes) and the pc after it (the hook runs after them).     *)
TokenCallPoints ==
  { <<"juby.deposit", "pull">>, <<"juby.deposit", "approve">>,
    <<"juby.deposit", "vault">>,
    <<"juby.withdraw", "slippage">>, <<"juby.withdraw", "pay">>,
    <<"morpho.deposit", "pull">>, <<"morpho.deposit", "mint">>,
    <<"morpho.mint", "pull">>, <<"morpho.mint", "mint">>,
    <<"morpho.withdraw", "push">>, <<"morpho.redeem", "push">> }

(* The outermost frame of the transaction in flight. *)
Outer == stack[Len(stack)]

(* The first step r of a transaction. *)
Started(call, r) ==
  /\ stack = <<>>
  /\ IF r.err # ""
       THEN /\ UNCHANGED <<juby, morpho, usdc, made, stack, snap, tx>>
            /\ last' = Rejected(call, r, 0)
       ELSE /\ juby' = r.W.j
            /\ morpho' = r.W.m
            /\ usdc' = r.W.t
            /\ stack' = r.stack
            /\ snap' = World
            /\ tx' = [TxIdle EXCEPT !.had = {u \in Users : juby.deposits[u].exists}]
            /\ made' = made
            /\ last' = Env("begin", call.who)
  /\ UNCHANGED now

(* A transaction starts: its first step is taken; a call rejected at its    *)
(* first step changes nothing.                                              *)
Begin(call) == Started(call, MStep(World, <<call>>, now))

BeginDeposit ==
  \E u \in Users, amount \in Amounts \ {0}, goalDate \in {now + 1} :
    /\ made < MaxDeposits
    /\ Begin(DepositCall(u, amount, goalDate))

BeginWithdraw ==
  \E u \in Users :
    /\ stack = <<>>
    /\ Begin(WithdrawCall(u))

(* The step r of the running frame, call being the transaction's call. *)
Stepped(call, r) ==
  /\ stack # <<>>
  /\ IF r.err # ""
       THEN /\ juby' = snap.j
            /\ morpho' = snap.m
            /\ usdc' = snap.t
            /\ stack' = <<>>
            /\ tx' = TxIdle
            /\ made' = made
            /\ last' = Rejected(call, r, 0)
       ELSE /\ juby' = r.W.j
            /\ morpho' = r.W.m
            /\ usdc' = r.W.t
            /\ stack' = r.stack
            /\ IF r.fin
                 THEN /\ last' = Returned(call, r, 0)
                      /\ made' = Count(call)
                      /\ tx' = IF call.op = "juby.withdraw"
                                 THEN [tx EXCEPT !.paid[call.who] = @ + 1]
                                 ELSE tx
                 ELSE UNCHANGED <<last, made, tx>>
  /\ UNCHANGED <<now, snap>>

(* The running frame takes its next step.  A revert discards everything the *)
(* transaction has written, the writes of the calls made from hooks too.    *)
StepTop ==
  /\ stack # <<>>
  /\ Stepped(Outer, MStep(World, stack, now))

(* The outcome r of a call made from a token hook. *)
Reentered(call, r) ==
  /\ stack # <<>>
  /\ <<Head(stack).op, Head(stack).pc>> \in TokenCallPoints
  /\ tx.nested < MaxNested
  /\ IF r.err # ""
       THEN /\ UNCHANGED <<juby, morpho, usdc, made>>
            /\ last' = Rejected(call, r, 1)
            /\ tx' = [tx EXCEPT !.nested = @ + 1]
       ELSE /\ juby' = r.W.j
            /\ morpho' = r.W.m
            /\ usdc' = r.W.t
            /\ made' = Count(call)
            /\ last' = Returned(call, r, 1)
            /\ tx' = [tx EXCEPT !.nested = @ + 1,
                                !.deps[call.who] =
                                   IF call.op = "juby.deposit" THEN @ + 1 ELSE @,
                                !.paid[call.who] =
                                   IF call.op = "juby.withdraw" THEN @ + 1 ELSE @]
  /\ UNCHANGED <<now, stack, snap>>

(* A call made from a token hook while the transaction is in flight. *)
Reenter(call) ==
  /\ stack # <<>>
  /\ Reentered(call, Run(World, <<call>>, now))

ReenterDeposit ==
  \E u \in Users, amount \in Amounts \ {0}, goalDate \in {now + 1} :
    /\ made < MaxDeposits
    /\ Reenter(DepositCall(u, amount, goalDate))

ReenterWithdraw ==
  \E u \in Users :
    /\ tx.nested < MaxNested
    /\ Reenter(WithdrawCall(u))

NextReentrant ==
  \/ BeginDeposit
  \/ BeginWithdraw
  \/ StepTop
  \/ ReenterDeposit
  \/ ReenterWithdraw
  \/ Tick

SpecReentrant == Init /\ [][NextReentrant]_vars

----------------------------------------------------------------------------
(* SpecVault: the users call the vault directly, with every operation the  *)
(* vault has, on their own shares, on each other's and on those of         *)
(* DEAD_ADDRESS.                                                           *)

VaultAmounts == {0, 1, DEAD_SHARES - 1, DEAD_SHARES, 50}
Owners == Users \cup {DEAD_ADDRESS}

DirectDeposit ==
  \E u \in Users, assets \in VaultAmounts, receiver \in {"alice", ZERO} :
    /\ made < MaxVaultOps
    /\ Transact(VaultDepositCall(u, assets, receiver))

DirectMint ==
  \E shares \in VaultAmounts, receiver \in {"bob", ZERO} :
    /\ made < MaxVaultOps
    /\ Transact(VaultMintCall("bob", shares, receiver))

DirectWithdraw ==
  \E u \in Users, assets \in {0, DEAD_SHARES}, owner \in Owners :
    /\ made < MaxVaultOps
    /\ Transact(VaultWithdrawCall(u, assets, u, owner))

DirectRedeem ==
  \E u \in Users, shares \in {0, DEAD_SHARES, morpho.balanceOf["alice"]},
     owner \in Owners :
    /\ made < MaxVaultOps
    /\ Transact(VaultRedeemCall(u, shares, u, owner))

ShareApprove ==
  \E amount \in {0, DEAD_SHARES} :
    /\ stack = <<>>
    /\ Transact(VaultApproveCall("alice", "bob", amount))

ShareTransfer ==
  \E to \in {"alice", "bob", DEAD_ADDRESS} :
    /\ made < MaxVaultOps
    /\ Transact(VaultTransferCall("alice", to, DEAD_SHARES))

ShareTransferFrom ==
  \E from \in {"alice", DEAD_ADDRESS}, amount \in {0, DEAD_SHARES} :
    /\ made < MaxVaultOps
    /\ Transact(VaultTransferFromCall("bob", from, "bob", amount))

NextVault ==
  \/ DirectDeposit
  \/ DirectMint
  \/ DirectWithdraw
  \/ DirectRedeem
  \/ ShareApprove
  \/ ShareTransfer
  \/ ShareTransferFrom
  \/ Tick

SpecVault == Init /\ [][NextVault]_vars

----------------------------------------------------------------------------
(* What the claims speak of *)

(* currentValue of u's deposit, and its yield, as withdraw() reads them. *)
CurrentValue(u) == convertToAssets(morpho, now, juby.deposits[u].shares)
YieldNow(u) ==
  IF CurrentValue(u) > juby.deposits[u].principal
    THEN CurrentValue(u) - juby.deposits[u].principal ELSE 0

(* The step is a withdraw() of u that returned. *)
WithdrawReturned(u) ==
  /\ juby.deposits[u].exists
  /\ last'.op = "juby.withdraw" /\ last'.who = u /\ last'.err = "" /\ last'.depth = 0
  /\ <<juby, morpho, usdc>>' # <<juby, morpho, usdc>>

(* The step is a deposit() of u, returned or rejected. *)
DepositCalled(u) ==
  /\ last'.op = "juby.deposit" /\ last'.who = u /\ last'.depth = 0
  /\ last' # last

Paid(a) == usdc'.balanceOf[a] - usdc.balanceOf[a]

C3_PaysAtLeastPrincipal ==
  (last.op = "juby.withdraw" /\ last.err = "") => last.ret >= last.f.principal

(* C4 as stated: a deposit() of an account whose UserDeposit exists is      *)
(* rejected with the duplicate-deposit error and changes no storage.        *)
C4_DuplicateRejectedAsDuplicate ==
  [][\A u \in Users :
       (DepositCalled(u) /\ juby.deposits[u].exists)
       => /\ last'.err = "Existing deposit found. Withdraw first."
          /\ UNCHANGED <<juby, morpho, usdc>>]_vars

(* The reason deposit(amount, goalDate) of u is rejected for in this state. *)
DepositError(u, amount, goalDate) ==
  Run(World, <<DepositCall(u, amount, goalDate)>>, now).err

(* C4 amended: a deposit() of an account whose UserDeposit exists is        *)
(* rejected and changes no storage; the reason is the duplicate-deposit     *)
(* error when amount > 0 and goalDate > now, and otherwise that of the      *)
(* zero-amount or goal-date check, which are made first.                    *)
C4_DuplicateRejected ==
  /\ [][\A u \in Users :
          (DepositCalled(u) /\ juby.deposits[u].exists)
          => /\ last'.err \in {"Existing deposit found. Withdraw first.",
                               "Cannot deposit 0", "Goal date must be in future"}
             /\ UNCHANGED <<juby, morpho, usdc>>]_vars
  /\ [](\A u \in Users, amount \in Amounts, goalDate \in GoalDates(now) :
          juby.deposits[u].exists
          => DepositError(u, amount, goalDate) =
               IF amount = 0 THEN "Cannot deposit 0"
               ELSE IF goalDate <= now THEN "Goal date must be in future"
               ELSE "Existing deposit found. Withdraw first.")

(* A deposit() of an account that holds a deposit has been rejected as a    *)
(* duplicate.                                                               *)
C4_Witness ==
  /\ last.op = "juby.deposit"
  /\ last.err = "Existing deposit found. Withdraw first."
  /\ juby.deposits[last.who].exists

(* C5: exists goes from false to true only by the account's own deposit()   *)
(* that returns, and from true to false only by its own withdraw() that     *)
(* returns; each of the two calls, when it returns, makes that change; a    *)
(* withdraw() without a deposit is rejected as "No deposit found", and a    *)
(* deposit() is rejected as a duplicate only while a deposit exists.        *)
C5_DepositStateMachine ==
  [][\A u \in Users :
       LET was == juby.deposits[u].exists
           is == juby'.deposits[u].exists
           mine == last'.who = u /\ last'.err = ""
       IN /\ (~was /\ is) => (last'.op = "juby.deposit" /\ mine)
          /\ (was /\ ~is) => (last'.op = "juby.withdraw" /\ mine)
          /\ (last'.op = "juby.deposit" /\ mine) => (~was /\ is)
          /\ (last'.op = "juby.withdraw" /\ mine) => (was /\ ~is)
          /\ (last'.op = "juby.withdraw" /\ last'.who = u /\ ~was)
               => last'.err = "No deposit found"
          /\ (DepositCalled(u) /\ ~was)
               => last'.err # "Existing deposit found. Withdraw first."]_vars

(* alice has deposited, withdrawn and deposited again: both deposits of the *)
(* run are hers, bob has done nothing.                                      *)
C5_Witness ==
  /\ last.op = "juby.deposit" /\ last.who = "alice" /\ last.err = ""
  /\ made = 2
  /\ juby.deposits["alice"].exists
  /\ ~juby.deposits["bob"].exists
  /\ usdc.balanceOf["bob"] = InitialBalance

(* C6: previewWithdrawal(u), read in the state a withdraw() of u starts in, *)
(* is the pair (paid to the caller, penalty) of that withdraw(); it is      *)
(* (0, 0) for an account without a deposit.                                 *)
C6_PreviewIsWithdraw ==
  [][/\ \A u \in Users :
          WithdrawReturned(u)
          => LET p == previewWithdrawal(World, now, u)
             IN /\ last'.ret = p.userWillReceive
                /\ last'.f.penalty = p.penaltyAmount
                /\ Paid(VAULT) = - (p.userWillReceive + p.penaltyAmount)
     /\ \A u \in Users :
          ~juby'.deposits[u].exists
          => previewWithdrawal(World', now', u) = [userWillReceive |-> 0, penaltyAmount |-> 0]]_vars

(* A withdraw() that took a penalty has returned. *)
C6_Witness ==
  /\ last.op = "juby.withdraw" /\ last.err = ""
  /\ last.f.penalty > 0 /\ last.ret > last.f.principal

(* What redeeming u's shares returns to the ledger in this state. *)
RedeemOfDeposit(u) ==
  Run(World, <<VaultRedeemCall(LEDGER, juby.deposits[u].shares, LEDGER, LEDGER)>>, now)

(* C7: a withdraw() whose redemption returns currentValue in full is not    *)
(* rejected by the slippage check, whatever currentValue is.                *)
C7_FullRedemptionPassesSlippage ==
  \A u \in Users :
    (/\ juby.deposits[u].exists
     /\ RedeemOfDeposit(u).err = ""
     /\ RedeemOfDeposit(u).ret = CurrentValue(u))
    => Run(World, <<WithdrawCall(u)>>, now).err \notin {"Slippage too high", "Panic(0x11)"}

----------------------------------------------------------------------------
(* Reentrancy (SpecReentrant) *)

(* A withdraw() of u is the transaction in flight, past its first step. *)
WithdrawInFlight(u) ==
  /\ stack # <<>>
  /\ Outer.op = "juby.withdraw" /\ Outer.who = u /\ Outer.pc # "entry"

(* C8: while a withdraw() of u is in flight, from before its first external *)
(* call on, u's record is deleted (unless u has deposited anew from a       *)
(* hook); a withdraw() of u made from a hook meanwhile is rejected as "No   *)
(* deposit found"; and in one transaction u is paid out at most once for    *)
(* the deposit held at its start and once for each deposit made in it.      *)
C8_DeletedBeforeExternalCalls ==
  \A u \in Users :
    /\ (WithdrawInFlight(u) /\ tx.deps[u] = 0) => ~juby.deposits[u].exists
    /\ (/\ WithdrawInFlight(u) /\ tx.deps[u] = 0
        /\ last.depth = 1 /\ last.op = "juby.withdraw" /\ last.who = u)
       => last.err = "No deposit found"
    /\ tx.paid[u] <= (IF u \in tx.had THEN 1 ELSE 0) + tx.deps[u]

(* A withdraw() of alice is in flight, its redemption done, and her         *)
(* withdraw() from a hook has just been rejected.                           *)
C8_Witness ==
  /\ WithdrawInFlight("alice")
  /\ Outer.pc = "pay" /\ Outer.userReceives > 0
  /\ last.depth = 1 /\ last.op = "juby.withdraw" /\ last.who = "alice"
  /\ last.err = "No deposit found"
  /\ tx.deps["alice"] = 0

(* The next step of the running frame writes its own contract's storage. *)
WritesOwnStorage(f, r) ==
  /\ r.err = ""
  /\ IF f.op \in LedgerOps THEN r.W.j # juby ELSE r.W.m # morpho

(* C9: no handler of the ledger or of the vault writes its contract's       *)
(* storage after it has made an external call.                              *)
C9_WritesBeforeExternalCalls ==
  stack # <<>> =>
    ~(Head(stack).called /\ WritesOwnStorage(Head(stack), FrameStep(World, Head(stack), now)))

----------------------------------------------------------------------------
(* The dead shares (SpecVault) *)

(* What a first deposit(assets, u) and a first mint(shares, u) come to. *)
FirstDeposit(u, assets) == Run(World, <<VaultDepositCall(u, assets, u)>>, now)
FirstMint(u, shares) == Run(World, <<VaultMintCall(u, shares, u)>>, now)

(* C10: into an uninitialized vault a deposit or mint of an amount below    *)
(* DEAD_SHARES is rejected, and the vault stays uninitialized until a       *)
(* deposit or mint of at least DEAD_SHARES returns; once it is initialized  *)
(* DEAD_ADDRESS holds at least DEAD_SHARES shares, totalSupply is at least  *)
(* DEAD_SHARES, and no call lowers the balance of DEAD_ADDRESS.             *)
C10_DeadSharesLocked ==
  [][/\ ~morpho.initialized =>
          \A u \in Users, a \in 0 .. (DEAD_SHARES - 1) :
            /\ FirstDeposit(u, a).err \in {"Cannot deposit 0", "First deposit too small"}
            /\ FirstMint(u, a).err \in {"Cannot mint 0", "First deposit too small"}
     /\ (~morpho.initialized /\ morpho'.initialized)
          => /\ last'.op \in {"morpho.deposit", "morpho.mint"} /\ last'.err = ""
             /\ last'.f.assets >= DEAD_SHARES
             /\ morpho'.balanceOf[DEAD_ADDRESS] = DEAD_SHARES
     /\ ~morpho'.initialized
          => /\ morpho'.totalSupply = 0 /\ morpho'._totalAssets = 0
             /\ \A a \in ShareHolders : morpho'.balanceOf[a] = 0
     /\ morpho.initialized => morpho'.initialized
     /\ morpho'.initialized
          => /\ morpho'.balanceOf[DEAD_ADDRESS] >= DEAD_SHARES
             /\ morpho'.totalSupply >= DEAD_SHARES
     /\ morpho'.balanceOf[DEAD_ADDRESS] >= morpho.balanceOf[DEAD_ADDRESS]]_vars

(* The vault has been initialized and every share but the dead ones has     *)
(* been redeemed since.                                                     *)
C10_Witness ==
  /\ morpho.initialized
  /\ last.op = "morpho.redeem" /\ last.err = "" /\ last.ret > 0
  /\ morpho.totalSupply = DEAD_SHARES
  /\ morpho.balanceOf[DEAD_ADDRESS] = DEAD_SHARES

----------------------------------------------------------------------------
(* The vault's accounts (SpecVault) *)

(* The first call of the run that moved shares was a deposit: the vault was *)
(* uninitialized when it was made, and nothing has moved since.             *)
FirstDepositDone ==
  /\ made = 1
  /\ last.op = "morpho.deposit" /\ last.err = "" /\ last.depth = 0

(* C11: after the first deposit of A >= DEAD_SHARES into an uninitialized   *)
(* vault, totalSupply = A and _totalAssets = A, the amount pulled in.       *)
C11_SeedTakenFromFirstDeposit ==
  FirstDepositDone
    => /\ morpho.totalSupply = last.f.assets
       /\ morpho._totalAssets = last.f.assets
       /\ usdc.balanceOf[VAULT] = last.f.assets

(* The step is a call of the vault, made by a user, that returned and moved *)
(* shares against assets.                                                   *)
VaultExchange ==
  /\ last'.op \in {"morpho.deposit", "morpho.mint", "morpho.withdraw", "morpho.redeem"}
  /\ last'.err = "" /\ last'.depth = 0
  /\ made' = made + 1

(* C12: no deposit, mint, withdraw or redeem of the vault lowers the share  *)
(* price: totalAssets' * totalSupply >= totalAssets * totalSupply', the     *)
(* assets taken with the yield accrued up to the time of the call.          *)
C12_SharePriceNeverFalls ==
  [][VaultExchange
       => totalAssets(morpho', now) * morpho.totalSupply
            >= totalAssets(morpho, now) * morpho'.totalSupply]_vars

(* C13: with totalSupply > 0, turning assets into shares and the shares     *)
(* back into assets at the same timestamp never gives more than the assets. *)
C13_RoundTripNeverGains ==
  morpho.totalSupply > 0
    => \A a \in 0 .. MaxAmount :
         convertToAssets(morpho, now, convertToShares(morpho, now, a)) <= a

(* The share price is above 1 and some amount loses to rounding both ways. *)
C13_Witness ==
  /\ morpho.totalSupply > 0
  /\ totalAssets(morpho, now) > morpho.totalSupply
  /\ \E a \in 1 .. MaxAmount :
       /\ convertToShares(morpho, now, a) > 0
       /\ convertToAssets(morpho, now, convertToShares(morpho, now, a)) < a

(* The times ahead of now, nothing being called in between. *)
Later == (now + 1) .. (now + Horizon)

(* C14 as stated: with a nonzero pool, convertToAssets(1) is strictly       *)
(* greater at every later time than now, and convertToAssets(s) never       *)
(* decreases.                                                               *)
C14_OneShareStrictlyGrows ==
  (morpho.totalSupply > 0 /\ totalAssets(morpho, now) > 0)
    => \A t2 \in Later :
         /\ convertToAssets(morpho, t2, 1) > convertToAssets(morpho, now, 1)
         /\ \A s \in 0 .. MaxAmount :
              convertToAssets(morpho, t2, s) >= convertToAssets(morpho, now, s)

(* C14 amended: with a nonzero pool, totalAssets() and convertToAssets(s)   *)
(* never decrease as time advances, for every s; convertToAssets(s) is      *)
(* strictly greater at t2 than at t1 whenever                               *)
(* s * (totalAssets(t2) - totalAssets(t1)) >= totalSupply.                  *)
C14_PriceNeverFallsOverTime ==
  (morpho.totalSupply > 0 /\ totalAssets(morpho, now) > 0)
    => \A t2 \in Later :
         /\ totalAssets(morpho, t2) >= totalAssets(morpho, now)
         /\ \A s \in 0 .. MaxAmount :
              /\ convertToAssets(morpho, t2, s) >= convertToAssets(morpho, now, s)
              /\ s * (totalAssets(morpho, t2) - totalAssets(morpho, now)) >= morpho.totalSupply
                   => convertToAssets(morpho, t2, s) > convertToAssets(morpho, now, s)

(* A nonzero pool in which one share is worth the same a period later, and  *)
(* some larger amount of shares is worth more.                              *)
C14_Witness ==
  /\ morpho.totalSupply > 0 /\ totalAssets(morpho, now) > 0
  /\ convertToAssets(morpho, now + 1, 1) = convertToAssets(morpho, now, 1)
  /\ \E s \in 1 .. MaxAmount :
       convertToAssets(morpho, now + 1, s) > convertToAssets(morpho, now, s)

(* The shares held by the accounts of S. *)
RECURSIVE SumOfBalances(_, _)
SumOfBalances(balanceOf, S) ==
  IF S = {} THEN 0
  ELSE LET a == CHOOSE x \in S : TRUE
       IN  balanceOf[a] + SumOfBalances(balanceOf, S \ {a})

(* C15: in every reachable vault state totalSupply is the sum of balanceOf  *)
(* over all holders, the seed holder included.                              *)
C15_SupplyIsSumOfBalances ==
  morpho.totalSupply = SumOfBalances(morpho.balanceOf, DOMAIN morpho.balanceOf)

(* Shares have just been moved between holders of an initialized vault in   *)
(* which the seed holder and both users hold shares.                        *)
C15_Witness ==
  /\ last.op \in {"morpho.transfer", "morpho.transferFrom"} /\ last.err = ""
  /\ last.f.shares > 0
  /\ morpho.balanceOf[DEAD_ADDRESS] > 0
  /\ morpho.balanceOf["alice"] > 0
  /\ morpho.balanceOf["bob"] > 0

(* What getUserInfo and previewWithdrawal return for an account without a   *)
(* deposit.                                                                 *)
NoUserInfo ==
  [principal |-> 0, currentValue |-> 0, yield |-> 0, goalDate |-> 0,
   isEarly |-> FALSE, potentialPenalty |-> 0]

NoPreview == [userWillReceive |-> 0, penaltyAmount |-> 0]

(* Both views of u are empty. *)
ViewsEmpty(u) ==
  /\ getUserInfo(World, now, u) = NoUserInfo
  /\ previewWithdrawal(World, now, u) = NoPreview

(* C16: after a successful withdraw() by an account getUserInfo returns     *)
(* (0, 0, 0, 0, false, 0) and previewWithdrawal returns (0, 0), and the     *)
(* views stay so until a successful deposit() by that account.              *)
C16_ViewsEmptyAfterWithdraw ==
  [][\A u \in Users :
       /\ WithdrawReturned(u) => ViewsEmpty(u)'
       /\ (ViewsEmpty(u) /\ ~ViewsEmpty(u)')
            => (DepositCalled(u) /\ last'.err = "")]_vars

(* alice has just withdrawn and been paid, bob's deposit is still active,   *)
(* and alice's views are empty.                                             *)
C16_Witness ==
  /\ last.op = "juby.withdraw" /\ last.who = "alice" /\ last.err = "" /\ last.depth = 0
  /\ last.ret > 0
  /\ ViewsEmpty("alice")
  /\ ~ViewsEmpty("bob")

(* What the claim asks of a deposit that is to succeed: a positive amount,  *)
(* no active deposit, the balance and the allowance for it, and an          *)
(* initialized vault.                                                       *)
DepositFunded(u, amount) ==
  /\ amount > 0
  /\ ~juby.deposits[u].exists
  /\ usdc.balanceOf[u] >= amount
  /\ usdc.allowance[u][LEDGER] >= amount
  /\ morpho.initialized

(* C17 as stated: a deposit() with goalDate = now is rejected as "Goal date *)
(* must be in future", and a funded deposit() with goalDate = now + 1       *)
(* succeeds.                                                                *)
C17_GoalDateBoundary ==
  \A u \in Users, amount \in Amounts :
    /\ amount > 0 => DepositError(u, amount, now) = "Goal date must be in future"
    /\ DepositFunded(u, amount) => DepositError(u, amount, now + 1) = ""

(* C17 amended: a deposit() of a positive amount with goalDate = now is     *)
(* rejected as "Goal date must be in future" (a zero amount as "Cannot      *)
(* deposit 0", the check made first); a funded deposit() with               *)
(* goalDate = now + 1 succeeds when the amount converts to at least one     *)
(* share, and is rejected as "Morpho deposit failed" when it converts to    *)
(* none.                                                                    *)
C17_GoalDateBoundaryForShares ==
  \A u \in Users, amount \in Amounts :
    /\ DepositError(u, amount, now) =
         IF amount = 0 THEN "Cannot deposit 0" ELSE "Goal date must be in future"
    /\ DepositFunded(u, amount)
         => DepositError(u, amount, now + 1) =
              IF convertToShares(morpho, now, amount) > 0 THEN ""
              ELSE "Morpho deposit failed"

(* A deposit() with goalDate = now + 1 into an initialized vault has        *)
(* returned, and one with goalDate = now would be rejected for its date.    *)
C17_Witness ==
  /\ last.op = "juby.deposit" /\ last.err = "" /\ last.depth = 0
  /\ last.f.goalDate = now + 1
  /\ made >= 2
  /\ \E u \in Users :
       /\ DepositFunded(u, 1)
       /\ DepositError(u, 1, now) = "Goal date must be in future"

----------------------------------------------------------------------------
(* The ledger with its administration and its reads: deposits of one size,  *)
(* withdrawals, both administrative operations called by the deployer and   *)
(* by alice, and the two views.                                             *)

OwnerTargets == {ZERO, "alice", DEPLOYER}

OpenDeposit ==
  \E u \in Users, goalDate \in {now + 1, now + 2} :
    /\ made < MaxOpened
    /\ Transact(DepositCall(u, 100, goalDate))

TransferOwnership ==
  \E c \in AdminCallers, a \in OwnerTargets :
    /\ stack = <<>>
    /\ Transact(TransferOwnershipCall(c, a))

GetUserInfo ==
  \E user \in Users :
    /\ stack = <<>>
    /\ Transact(GetUserInfoCall("bob", user))

PreviewWithdrawal ==
  \E user \in Users :
    /\ stack = <<>>
    /\ Transact(PreviewWithdrawalCall("bob", user))

NextAdmin ==
  \/ OpenDeposit
  \/ Withdraw
  \/ UpdateTreasury
  \/ TransferOwnership
  \/ GetUserInfo
  \/ PreviewWithdrawal
  \/ Tick

SpecAdmin == Init /\ [][NextAdmin]_vars


(* The tuple a returned getUserInfo handed back, and the pair of a returned *)
(* previewWithdrawal.                                                       *)
UserInfoReturned(f) ==
  [principal |-> f.principal, currentValue |-> f.currentValue, yield |-> f.yield,
   goalDate |-> f.goalDate, isEarly |-> f.isEarly, potentialPenalty |-> f.penalty]

PreviewReturned(f) == [userWillReceive |-> f.userReceives, penaltyAmount |-> f.penalty]

(* C18: a call of getUserInfo or previewWithdrawal returns and leaves the   *)
(* ledger's records, treasury and owner, the vault's totalSupply, cached    *)
(* total assets, last accrual time, share balances and allowances, and the  *)
(* asset balances unchanged; the same call made again in the state it       *)
(* leaves, at the same time, returns the same result.                       *)
C18_ReadsChangeNothing ==
  [][last'.op \in {"juby.getUserInfo", "juby.previewWithdrawal"}
       => /\ last'.err = ""
          /\ UNCHANGED <<juby, morpho, usdc, now>>
          /\ last'.op = "juby.getUserInfo"
               => getUserInfo(World', now', last'.f.receiver) = UserInfoReturned(last'.f)
          /\ last'.op = "juby.previewWithdrawal"
               => previewWithdrawal(World', now', last'.f.receiver) = PreviewReturned(last'.f)]_vars

(* getUserInfo has returned for an active deposit that has earned yield     *)
(* since the vault last accrued, withdrawal being early.                    *)
C18_Witness ==
  /\ last.op = "juby.getUserInfo" /\ last.err = ""
  /\ juby.deposits[last.f.receiver].exists
  /\ last.f.yield > 0 /\ last.f.isEarly /\ last.f.penalty > 0
  /\ now > morpho.lastYieldUpdate


(* What updateTreasury(a) and transferOwnership(a), called by c in this     *)
(* state, end with: "" when the call returns, the revert reason otherwise.  *)
UpdateTreasuryError(c, a) ==
  Run(World, <<UpdateTreasuryCall(c, a)>>, now).err

TransferOwnershipError(c, a) ==
  Run(World, <<TransferOwnershipCall(c, a)>>, now).err

AdminOps == {"juby.updateTreasury", "juby.transferOwnership"}

(* Both administrative operations succeed exactly for the owner with a      *)
(* non-zero address, and a rejected call leaves the ledger unchanged.       *)
AdminGuarded ==
  /\ \A c \in AdminCallers, a \in AdminTargets \cup OwnerTargets :
       /\ UpdateTreasuryError(c, a) = "" <=> (c = juby.owner /\ a # ZERO)
       /\ TransferOwnershipError(c, a) = "" <=> (c = juby.owner /\ a # ZERO)
  /\ (last'.op \in AdminOps /\ last'.err # "") => UNCHANGED <<juby, morpho, usdc>>
  /\ (last'.op \in AdminOps /\ last'.err = "")
       => /\ last'.who = juby.owner /\ last'.f.receiver # ZERO
          /\ juby' = IF last'.op = "juby.updateTreasury"
                       THEN [juby EXCEPT !.jubyTreasury = last'.f.receiver]
                       ELSE [juby EXCEPT !.owner = last'.f.receiver]

(* Every administrative call of c is rejected in the state reached. *)
LockedOut(c) ==
  \A a \in AdminTargets \cup OwnerTargets :
    /\ UpdateTreasuryError(c, a) # ""
    /\ TransferOwnershipError(c, a) # ""

(* C19 as stated: updateTreasury and transferOwnership succeed only for the *)
(* owner with a non-zero address, any other call is rejected and changes    *)
(* nothing, and after a successful transferOwnership the previous owner can *)
(* perform neither operation.                                               *)
C19_AdminOnly ==
  [][/\ AdminGuarded
     /\ (last'.op = "juby.transferOwnership" /\ last'.err = "")
          => \A was \in AdminCallers : was = juby.owner => LockedOut(was)']_vars

(* C19 amended: as stated, the previous owner being locked out when the new *)
(* owner is another address; transferOwnership to the owner's own address   *)
(* succeeds and leaves the owner in place.                                  *)
C19_AdminOnlyOwner ==
  [][/\ AdminGuarded
     /\ (last'.op = "juby.transferOwnership" /\ last'.err = "")
          => IF last'.f.receiver # juby.owner
               THEN \A was \in AdminCallers : was = juby.owner => LockedOut(was)'
               ELSE juby' = juby]_vars

(* The ownership has gone to alice, and the deployer's updateTreasury has   *)
(* since been rejected.                                                     *)
C19_Witness ==
  /\ juby.owner = "alice"
  /\ last.op = "juby.updateTreasury" /\ last.who = DEPLOYER
  /\ last.err = "Only owner"


(* The events of the transaction just made that record a change from old   *)
(* to new.                                                                  *)
ChangeEvents(old, new) ==
  {i \in 1 .. Len(last'.f.events) : last'.f.events[i].args = <<old, new>>}

(* C20: every successful updateTreasury and every successful               *)
(* transferOwnership emits an event recording the old and the new value,   *)
(* and neither the treasury nor the owner changes without such an event.   *)
C20_AdminChangesEmitEvents ==
  [][/\ (last'.op = "juby.updateTreasury" /\ last'.err = "")
          => ChangeEvents(juby.jubyTreasury, juby'.jubyTreasury) # {}
     /\ (last'.op = "juby.transferOwnership" /\ last'.err = "")
          => ChangeEvents(juby.owner, juby'.owner) # {}
     /\ juby'.jubyTreasury # juby.jubyTreasury
          => ChangeEvents(juby.jubyTreasury, juby'.jubyTreasury) # {}
     /\ juby'.owner # juby.owner
          => ChangeEvents(juby.owner, juby'.owner) # {}]_vars


(* The step is a call of the ledger or of the vault that was rejected. *)
CallRejected ==
  /\ last'.op \in LedgerOps \cup VaultOps
  /\ last'.err # ""

AssetsMoved ==
  CASE last'.op = "morpho.deposit" -> last'.f.assets
    [] last'.op = "morpho.mint" -> last'.ret
    [] last'.op = "morpho.withdraw" -> - last'.f.assets
    [] OTHER -> - last'.ret

(* What the exchange just made returned, priced on the vault m. *)
PricedOn(m) ==
  CASE last'.op \in {"morpho.deposit", "morpho.withdraw"} ->
         convertToShares(m, now, last'.f.assets)
    [] OTHER -> convertToAssets(m, now, last'.f.shares)

(* C22: after every successful deposit, mint, withdraw and redeem of the    *)
(* vault lastYieldUpdate = now and the cached total holds all the yield     *)
(* earned up to now; on an initialized vault the cached total is the        *)
(* accrued total of before plus or minus the assets moved, and the amount   *)
(* returned is the conversion on the accrued vault.                         *)
C22_AccrualBeforePricing ==
  [][VaultExchange
       => /\ morpho'.lastYieldUpdate = now
          /\ totalAssets(morpho', now) = morpho'._totalAssets
          /\ morpho.initialized
               => /\ morpho'._totalAssets = totalAssets(morpho, now) + AssetsMoved
                  /\ last'.ret = PricedOn(_accrueYield(morpho, now))]_vars

(* An exchange has been made on a vault that had earned yield since its     *)
(* last accrual: the cached total is above the supply.                      *)
C22_Witness ==
  /\ last.op \in {"morpho.deposit", "morpho.mint", "morpho.withdraw", "morpho.redeem"}
  /\ last.err = "" /\ made >= 2
  /\ now >= 1 /\ morpho.lastYieldUpdate = now
  /\ morpho._totalAssets > morpho.totalSupply


(* C23: over every vault operation and every advance of time               *)
(* lastYieldUpdate never decreases and never exceeds the current time.      *)
C23_AccrualTimeMonotone ==
  [][/\ morpho'.lastYieldUpdate >= morpho.lastYieldUpdate
     /\ morpho.lastYieldUpdate <= now
     /\ morpho'.lastYieldUpdate <= now']_vars

(* The vault accrued after time had advanced, and time has advanced again   *)
(* since.                                                                   *)
C23_Witness ==
  /\ morpho.lastYieldUpdate >= 1
  /\ morpho.lastYieldUpdate < now


(* C24: totalAssets() is 0 when the cached total is 0 and otherwise the     *)
(* cached total plus floor(cached * 500 * (now - lastYieldUpdate) /         *)
(* (seconds per year * 10000)), now and at every later time; read just      *)
(* after an accrual it is what it was just before, at the same time.        *)
C24_TotalAssetsFormula ==
  \A ts \in now .. (now + Horizon) :
    /\ totalAssets(morpho, ts) =
         IF morpho._totalAssets = 0 THEN 0
         ELSE morpho._totalAssets
                + (morpho._totalAssets * 500 * (ts - morpho.lastYieldUpdate))
                    \div (SECONDS_PER_YEAR * 10000)
    /\ totalAssets(_accrueYield(morpho, ts), ts) = totalAssets(morpho, ts)

(* A vault that has earned yield since its last accrual. *)
C24_Witness ==
  /\ morpho._totalAssets > 0
  /\ now > morpho.lastYieldUpdate
  /\ totalAssets(morpho, now) > morpho._totalAssets


(* A deposit() of u is in flight. *)
DepositInFlight(u) ==
  /\ stack # <<>>
  /\ Outer.op = "juby.deposit" /\ Outer.who = u

(* C25: while a deposit() of an account is in flight, a deposit() of the    *)
(* same account made from a hook of one of its external calls is rejected,  *)
(* so that no second deposit of the account is accepted meanwhile.          *)
C25_NestedDepositRejected ==
  \A u \in Users :
    DepositInFlight(u)
      => /\ tx.deps[u] = 0
         /\ (last.depth = 1 /\ last.op = "juby.deposit" /\ last.who = u)
              => last.err # ""


(* Some holder's share balance changes in the step. *)
BalancesChange == morpho'.balanceOf # morpho.balanceOf

(* C26 as stated: a holder's share balance changes only in a deposit, mint, *)
(* withdraw or redeem of the vault.                                         *)
C26_BalancesChangeByExchangeOnly ==
  [][BalancesChange
       => /\ last'.op \in {"morpho.deposit", "morpho.mint", "morpho.withdraw",
                           "morpho.redeem"}
          /\ last'.err = ""]_vars

(* C26 amended: a holder's share balance changes only in a successful       *)
(* deposit, mint, withdraw, redeem, transfer or transferFrom of the vault;  *)
(* transfer and transferFrom change the balances of the sender and of the   *)
(* recipient alone and leave totalSupply as it is; approve changes no       *)
(* balance.                                                                 *)
C26_BalancesChangeByExchangeOrTransfer ==
  [][/\ BalancesChange
          => /\ last'.op \in {"morpho.deposit", "morpho.mint", "morpho.withdraw",
                              "morpho.redeem", "morpho.transfer", "morpho.transferFrom"}
             /\ last'.err = ""
     /\ (BalancesChange /\ last'.op \in {"morpho.transfer", "morpho.transferFrom"})
          => /\ morpho'.totalSupply = morpho.totalSupply
             /\ \E from \in ShareHolders, to \in ShareHolders :
                  /\ from # to
                  /\ morpho'.balanceOf =
                       [morpho.balanceOf EXCEPT ![from] = @ - last'.f.shares,
                                                ![to] = @ + last'.f.shares]]_vars

(* alice has transferred shares to bob, who had made no exchange himself.   *)
C26_Witness ==
  /\ last.op = "morpho.transfer" /\ last.who = "alice" /\ last.err = ""
  /\ last.f.receiver = "bob"
  /\ morpho.balanceOf["bob"] = last.f.shares
  /\ usdc.balanceOf["bob"] = InitialBalance


(* The step is a withdraw() of u that returned. *)
OwnWithdraw(u) ==
  last'.op = "juby.withdraw" /\ last'.who = u /\ last'.err = ""

(* C27: an account's UserDeposit, once created, keeps its shares,           *)
(* principal, goalDate and depositDate in every step but the account's own  *)
(* successful withdraw(), which deletes it whole: no deposit, withdraw,     *)
(* administrative or vault operation of another account and no passage of   *)
(* time changes it.                                                         *)
C27_RecordFrozenUntilWithdraw ==
  [][\A u \in Users :
       juby.deposits[u].exists
         => IF OwnWithdraw(u)
              THEN juby'.deposits[u] = NoDeposit
              ELSE juby'.deposits[u] = juby.deposits[u]]_vars

(* alice's deposit is active and unchanged after time has passed and bob    *)
(* has deposited and withdrawn.                                             *)
C27_Witness ==
  /\ last.op = "juby.withdraw" /\ last.who = "bob" /\ last.err = ""
  /\ juby.deposits["alice"].exists
  /\ juby.deposits["alice"].shares > 0
  /\ now > juby.deposits["alice"].depositDate


(* The ledger's shares of the vault gained in the step. *)
LedgerSharesGained == morpho'.balanceOf[LEDGER] - morpho.balanceOf[LEDGER]

(* C28: a deposit(amount, goalDate) that returns stores for the caller      *)
(* shares = the shares the vault's deposit returned, principal = amount,    *)
(* goalDate, depositDate = now and exists = true, takes exactly amount from *)
(* the caller's asset balance and adds exactly shares to the ledger's share *)
(* balance in the vault.                                                    *)
C28_DepositRecorded ==
  [][\A u \in Users :
       (DepositCalled(u) /\ last'.err = "")
         => /\ last'.ret = IF morpho.initialized
                             THEN convertToShares(morpho, now, last'.f.amount)
                             ELSE last'.f.amount
            /\ juby'.deposits[u] =
                 [shares |-> last'.ret, principal |-> last'.f.amount,
                  goalDate |-> last'.f.goalDate, depositDate |-> now, exists |-> TRUE]
            /\ Paid(u) = - last'.f.amount
            /\ LedgerSharesGained = last'.ret]_vars

(* A deposit has returned fewer shares than the amount paid in, the share   *)
(* price being above one.                                                   *)
C28_Witness ==
  /\ last.op = "juby.deposit" /\ last.err = "" /\ last.depth = 0
  /\ last.ret > 0 /\ last.ret < last.f.amount
  /\ juby.deposits[last.who].shares = last.ret


(* What redeem(shares, c, owner), called by c in this state, comes to: its  *)
(* error and the storage it leaves, that of before when it reverts.         *)
RedeemOutcome(c, shares, owner) ==
  LET r == Run(World, <<VaultRedeemCall(c, shares, c, owner)>>, now)
  IN [err |-> r.err, W |-> IF r.err # "" THEN World ELSE r.W]

(* C29: a redeem(shares, receiver, owner) of a caller other than owner      *)
(* succeeds only with allowance[owner][caller] >= shares, which it lowers   *)
(* by exactly shares; it is rejected when owner's balance is below shares;  *)
(* with caller = owner the allowances are neither asked for nor changed; a  *)
(* rejected redeem leaves the allowances as they were.                      *)
C29_RedeemSpendsAllowance ==
  \A c \in Users, owner \in Owners, shares \in VaultAmounts :
    LET r == RedeemOutcome(c, shares, owner)
    IN /\ (c # owner /\ r.err = "")
            => /\ morpho.allowance[owner][c] >= shares
               /\ r.W.m.allowance =
                    [morpho.allowance EXCEPT ![owner][c] = @ - shares]
       /\ (c # owner /\ shares > 0 /\ morpho.allowance[owner][c] < shares)
            => r.err = "Insufficient allowance"
       /\ morpho.balanceOf[owner] < shares => r.err # ""
       /\ c = owner
            => /\ r.err # "Insufficient allowance"
               /\ r.W.m.allowance = morpho.allowance
       /\ r.err # "" => r.W.m.allowance = morpho.allowance

(* bob has redeemed shares of alice on her approval, which is used up.      *)
C29_Witness ==
  /\ last.op = "morpho.redeem" /\ last.err = ""
  /\ last.who = "bob" /\ last.f.owner = "alice"
  /\ last.f.shares > 0
  /\ morpho.allowance["alice"]["bob"] = 0


(* What deposit(assets, u), called by u in this state, ends with. *)
VaultDepositError(u, assets) ==
  Run(World, <<VaultDepositCall(u, assets, u)>>, now).err

(* C30: a deposit of the vault that returns has minted shares, a mint or a  *)
(* redeem that returns has moved assets; a deposit of a positive amount     *)
(* that converts to no share is rejected with "Zero shares".                *)
C30_ZeroConversionsRejected ==
  /\ (last.op = "morpho.deposit" /\ last.err = "")
       => (last.f.assets > 0 /\ last.ret > 0)
  /\ (last.op \in {"morpho.mint", "morpho.redeem"} /\ last.err = "")
       => (last.f.shares > 0 /\ last.ret > 0)
  /\ \A u \in Users, assets \in VaultAmounts \ {0} :
       (morpho.initialized /\ convertToShares(morpho, now, assets) = 0)
         => VaultDepositError(u, assets) = "Zero shares"

(* A deposit of an amount worth less than one share has been rejected.      *)
C30_Witness ==
  /\ last.op = "morpho.deposit" /\ last.err = "Zero shares"
  /\ morpho.initialized
  /\ convertToShares(morpho, now, 1) = 0


(* C31: right after a deposit(amount, goalDate) that returned, at the same  *)
(* timestamp, getUserInfo of the depositor reports principal = amount,      *)
(* yield = 0, isEarly = true and potentialPenalty = 0, with                 *)
(* currentValue <= principal.                                               *)
C31_InfoAfterDeposit ==
  [][\A u \in Users :
       (DepositCalled(u) /\ last'.err = "")
         => LET i == getUserInfo(World', now', u)
            IN /\ i.principal = last'.f.amount
               /\ i.yield = 0
               /\ i.isEarly
               /\ i.potentialPenalty = 0
               /\ i.currentValue <= i.principal
               /\ i.goalDate = last'.f.goalDate]_vars

(* A deposit has just returned whose shares are worth less than the amount  *)
(* paid in, the conversions having rounded down.                            *)
C31_Witness ==
  /\ last.op = "juby.deposit" /\ last.err = "" /\ last.depth = 0
  /\ getUserInfo(World, now, last.who).principal = last.f.amount
  /\ getUserInfo(World, now, last.who).currentValue < last.f.amount


(* C32: in every reachable state and for every account the two reads agree: *)
(* getUserInfo's potentialPenalty is previewWithdrawal's penaltyAmount, and *)
(* getUserInfo's currentValue less potentialPenalty is previewWithdrawal's  *)
(* userWillReceive.                                                         *)
C32_ReadsAgree ==
  \A u \in Users :
    LET i == getUserInfo(World, now, u)
        p == previewWithdrawal(World, now, u)
    IN /\ i.potentialPenalty = p.penaltyAmount
       /\ i.currentValue - i.potentialPenalty = p.userWillReceive

(* An account whose withdrawal would be charged a penalty now. *)
C32_Witness ==
  \E u \in Users :
    /\ getUserInfo(World, now, u).potentialPenalty > 0
    /\ previewWithdrawal(World, now, u).userWillReceive
         < getUserInfo(World, now, u).currentValue


(* C33 as stated: in every withdraw() that returns, what the vault pays out *)
(* on the redeem is the currentValue read at the start of the call and is   *)
(* penalty + the amount paid to the caller, and the ledger's own asset      *)
(* balance is after the call what it was before; a deposit() that returns   *)
(* leaves the ledger's asset balance as it was, too.                        *)
C33_LedgerBalanceUnchanged ==
  [][\A u \in Users :
       /\ WithdrawReturned(u)
          => /\ last'.f.assets = CurrentValue(u)
             /\ last'.f.assets = last'.f.penalty + last'.ret
             /\ Paid(VAULT) = - last'.f.assets
             /\ Paid(LEDGER) = 0
       /\ (DepositCalled(u) /\ last'.err = "") => Paid(LEDGER) = 0]_vars

(* C33 amended: the redeem pays currentValue = penalty + the amount paid to *)
(* the caller, and the ledger's asset balance is unchanged by a withdraw()  *)
(* unless the treasury is the ledger itself, when the penalty stays on the  *)
(* ledger's balance; a deposit() leaves the ledger's balance as it was.     *)
C33_LedgerKeepsOnlyOwnPenalty ==
  [][\A u \in Users :
       /\ WithdrawReturned(u)
          => /\ last'.f.assets = CurrentValue(u)
             /\ last'.f.assets = last'.f.penalty + last'.ret
             /\ Paid(VAULT) = - last'.f.assets
             /\ Paid(LEDGER) = IF juby.jubyTreasury = LEDGER THEN last'.f.penalty ELSE 0
       /\ (DepositCalled(u) /\ last'.err = "") => Paid(LEDGER) = 0]_vars

(* A withdraw() with a penalty has returned while the treasury is the       *)
(* ledger: the penalty is on the ledger's balance.                          *)
C33_Witness ==
  /\ last.op = "juby.withdraw" /\ last.err = "" /\ last.depth = 0
  /\ last.f.penalty > 0 /\ last.f.assets = last.f.penalty + last.ret
  /\ juby.jubyTreasury = LEDGER
  /\ usdc.balanceOf[LEDGER] > 0


(* The shares held by holders other than the seed's dead address. *)
HolderShares == SumOfBalances(morpho.balanceOf, ShareHolders \ {DEAD_ADDRESS})

(* What withdraw() of u ends with in this state. *)
WithdrawError(u) == Run(World, <<WithdrawCall(u)>>, now).err

(* What redeem(balanceOf[h], h, h) of holder h ends with in this state. *)
RedeemAllError(h) ==
  Run(World, <<VaultRedeemCall(h, morpho.balanceOf[h], h, h)>>, now).err

(* C34: in every reachable state the vault's asset-token balance is at      *)
(* least convertToAssets of the shares of all holders but the seed holder,  *)
(* every account with an active deposit can complete withdraw() and every   *)
(* holder can redeem its full balance.                                      *)
C34_VaultCoversHolders ==
  /\ usdc.balanceOf[VAULT] >= convertToAssets(morpho, now, HolderShares)
  /\ \A u \in Users : juby.deposits[u].exists => WithdrawError(u) = ""
  /\ \A h \in ShareHolders \ {DEAD_ADDRESS} :
       morpho.balanceOf[h] > 0 => RedeemAllError(h) = ""


(* The shares of the UserDeposit records that exist, summed over accounts S. *)
RECURSIVE RecordedShares(_, _)
RecordedShares(deposits, S) ==
  IF S = {} THEN 0
  ELSE LET u == CHOOSE x \in S : TRUE
       IN (IF deposits[u].exists THEN deposits[u].shares ELSE 0)
            + RecordedShares(deposits, S \ {u})

(* C35: in every reachable state the shares of all active UserDeposit       *)
(* records add up to the vault share balance of the ledger, whatever the    *)
(* interleaving of deposits and withdrawals of different accounts.          *)
C35_RecordsMatchLedgerShares ==
  RecordedShares(juby.deposits, Users) = morpho.balanceOf[LEDGER]

(* Two accounts hold deposits made at different share prices, after a      *)
(* withdraw() has returned.                                                 *)
C35_Witness ==
  /\ juby.deposits["alice"].exists /\ juby.deposits["bob"].exists
  /\ juby.deposits["alice"].shares # juby.deposits["bob"].shares
  /\ morpho.balanceOf[LEDGER]
       = juby.deposits["alice"].shares + juby.deposits["bob"].shares
  /\ \E u \in Users : usdc.balanceOf[u] + juby.deposits[u].principal > InitialBalance


(* C36: in every reachable state of an initialized vault the cached total   *)
(* assets are at least the share supply, so a share is never worth less     *)
(* than one asset unit, whatever deposits, mints, withdrawals, redemptions, *)
(* share transfers and time steps came before.                              *)
C36_ShareWorthAtLeastOne ==
  morpho.totalSupply > 0 => morpho._totalAssets >= morpho.totalSupply

(* A withdraw or redeem of the vault has returned after yield accrued, its  *)
(* rounding paid by the remaining holders, and a share is still worth more  *)
(* than one unit.                                                           *)
C36_Witness ==
  /\ last.op \in {"morpho.withdraw", "morpho.redeem"} /\ last.err = ""
  /\ now > 0
  /\ morpho.totalSupply > DEAD_SHARES
  /\ morpho._totalAssets > morpho.totalSupply
  /\ morpho._totalAssets < morpho.totalSupply + morpho.totalSupply \div 10


(* The step is a deposit() or a withdraw() of b that returned. *)
LedgerCallReturned(b) ==
  \/ WithdrawReturned(b)
  \/ DepositCalled(b) /\ last'.err = ""

(* C37: a deposit() or withdraw() of account b that returns never lowers    *)
(* the currentValue, convertToAssets of the recorded shares, of another     *)
(* account a that holds a deposit, the timestamp being the same before and  *)
(* after.                                                                   *)
C37_OthersValueNotLowered ==
  [][\A a \in Users, b \in Users :
       (a # b /\ juby.deposits[a].exists /\ LedgerCallReturned(b))
         => /\ now' = now
            /\ juby'.deposits[a] = juby.deposits[a]
            /\ CurrentValue(a)' >= CurrentValue(a)]_vars

(* A call of one account has returned while the other holds a deposit that  *)
(* has earned yield, at a share price above one.                            *)
C37_Witness ==
  \E a \in Users :
    /\ last.op \in {"juby.deposit", "juby.withdraw"} /\ last.err = "" /\ last.depth = 0
    /\ last.who # a
    /\ juby.deposits[a].exists
    /\ CurrentValue(a) > juby.deposits[a].principal
    /\ morpho.lastYieldUpdate = now

====
